---- MODULE Spec2Model ----
(***************************************************************************)
(* The Solana trade program (contracts/solana/programs/trade/src/lib.rs)  *)
(* as a state machine: one Trade account per (maker, token mint) PDA, the  *)
(* escrow token account it owns, the parties' token accounts, and the      *)
(* six instructions create_trade, deposit_escrow, accept_trade,            *)
(* complete_trade, cancel_trade and dispute_trade.                         *)
(*                                                                         *)
(* The CosmWasm trade contract's IBC entry points                          *)
(* (contracts/cosmwasm/contracts/trade/src/ibc.rs) form a second state      *)
(* machine, SpecIbc, over the contract's storage and the host's channels.  *)
(*                                                                         *)
(* The Solana offer program (contracts/solana/programs/offer/src/lib.rs)   *)
(* is a third state machine, SpecOffer, over one Offer account; its        *)
(* take_offer reaches the trade program by CPI.                            *)
(*                                                                         *)
(* The CosmWasm offer contract                                             *)
(* (contracts/cosmwasm/contracts/offer/src/contract.rs) is a fourth,       *)
(* SpecCw, over the contract's storage.                                    *)
(*                                                                         *)
(* Every instruction runs to completion inside one transaction.  A handler *)
(* is an operator that executes the statements of the Rust function in     *)
(* their source order on a copy of the accounts and returns the error code *)
(* together with the accounts as they are at the point of return; the      *)
(* runtime (Commit) keeps the accounts only when the handler returned Ok.  *)
(***************************************************************************)
EXTENDS Integers, FiniteSets, Sequences, TLC

\* ---------------------------------------------------------------- bounds
MaxAmount == 2          \* token quantities are drawn from 0..MaxAmount
MaxPrice == 1           \* prices are drawn from 0..MaxPrice
MaxTime == 1            \* Clock::get().unix_timestamp ranges over 0..MaxTime

\* ------------------------------------------------------------ identities
Users == {"alice", "bob", "carol"}     \* signers (Pubkeys)
Makers == {"alice"}                    \* makers whose trade PDA is tracked
None == "None"                         \* Option::None of Trade.taker
NoTrade == [status |-> "Uninitialized"]  \* the PDA before create_trade

Wallet(u) == <<"wallet", u>>           \* the token account owned by user u
Escrow(k) == <<"escrow", k>>           \* the escrow token account of trade k
TokenAccounts == {Wallet(u) : u \in Users} \cup {Escrow(k) : k \in Makers}

Amounts == 0..MaxAmount
Prices == 0..MaxPrice
InitBalance == MaxAmount               \* every user's token balance at start

TradeStatus == {"Created", "Open", "InProgress", "Completed", "Cancelled", "Disputed"}

Ops == {"create_trade", "deposit_escrow", "accept_trade", "complete_trade",
        "cancel_trade", "dispute_trade"}

VARIABLES
    trades,     \* [Makers -> Trade record or NoTrade]
    balance,    \* [TokenAccounts -> Nat]: SPL token balances
    now,        \* the cluster clock
    last,       \* history: the last instruction executed and its result
    hist,       \* history: per trade, the instructions that have succeeded
    channel_state,      \* [Channels -> the host's state of the channel]
    connection_counts,  \* CONNECTION_COUNTS: Map<String, u32>
    timeout_counts,     \* TIMEOUT_COUNTS: Map<String, u32>
    ledger,             \* the trades of the CosmWasm contract, by trade id
    ibc_last,           \* history: the last IBC entry point called and its result
    offer,              \* the Offer account of the offer program, or NoOffer
    offer_last,         \* history: the last offer instruction and its result
    cw_storage,         \* the storage of the CosmWasm offer contract
    cw_last             \* history: the last call of the CosmWasm offer contract

trade_vars == <<trades, balance, now, last, hist>>
ibc_vars == <<channel_state, connection_counts, timeout_counts, ledger, ibc_last>>
offer_vars == <<offer, offer_last>>
cw_vars == <<cw_storage, cw_last>>
vars == <<trades, balance, now, last, hist,
          channel_state, connection_counts, timeout_counts, ledger, ibc_last,
          offer, offer_last, cw_storage, cw_last>>

\* The Trade account
Trade(maker, taker, amount, price, status, created_at, updated_at) ==
    [maker |-> maker, taker |-> taker, amount |-> amount, price |-> price,
     status |-> status, created_at |-> created_at, updated_at |-> updated_at]

\* What a handler returns: the error code and the accounts at the return.
Result(err, t, bal) == [err |-> err, trade |-> t, balance |-> bal]

\* token::transfer (SPL Token): fails when the source holds less than amount.
Transfer(bal, from, to, amount) ==
    IF bal[from] < amount
    THEN [err |-> "InsufficientFunds", balance |-> bal]
    ELSE [err |-> "Ok",
          balance |-> [bal EXCEPT ![from] = @ - amount, ![to] = @ + amount]]

\* ---------------------------------------------------------------- handlers

create_trade(bal, k, maker, amount, price, clk) ==
    Result("Ok",
           Trade(maker, None, amount, price, "Created", clk, clk),
           [bal EXCEPT ![Escrow(k)] = 0])

\* accept_trade with its status guard left out
accept_trade_NoStatusCheck(t, bal, taker, clk) ==
    Result("Ok",
           [t EXCEPT !.taker = taker, !.status = "InProgress", !.updated_at = clk],
           bal)

accept_trade(t, bal, taker, clk) ==
    IF t.status # "Open" THEN Result("InvalidTradeStatus", t, bal)
    ELSE Result("Ok",
                [t EXCEPT !.taker = taker, !.status = "InProgress", !.updated_at = clk],
                bal)

\* price::verify_price_for_trade, reached by CPI from complete_trade
verify_price_for_trade(is_initialized, hub_ok, trade_price) ==
    IF ~is_initialized THEN "NotInitialized"
    ELSE IF ~hub_ok THEN "HubInvokeFailed"
    ELSE "Ok"

\* profile::record_trade_completion, reached by CPI from complete_trade
record_trade_completion(profile_ok) ==
    IF profile_ok THEN "Ok" ELSE "ProfileError"

\* complete_trade releasing the escrow to the maker instead of the taker
complete_trade_PaysMaker(t, bal, k, is_initialized, hub_ok, profile_ok, clk) ==
    IF t.status # "InProgress" THEN Result("InvalidTradeStatus", t, bal)
    ELSE LET priced == verify_price_for_trade(is_initialized, hub_ok, t.price) IN
    IF priced # "Ok" THEN Result(priced, t, bal)
    ELSE LET xfer == Transfer(bal, Escrow(k), Wallet(t.maker), t.amount) IN
    IF xfer.err # "Ok" THEN Result(xfer.err, t, bal)
    ELSE LET noted == record_trade_completion(profile_ok) IN
    IF noted # "Ok" THEN Result(noted, t, xfer.balance)
    ELSE Result("Ok",
                [t EXCEPT !.status = "Completed", !.updated_at = clk],
                xfer.balance)

\* complete_trade dropping the result of the profile CPI
complete_trade_IgnoresProfileError(t, bal, k, is_initialized, hub_ok, profile_ok, clk) ==
    IF t.status # "InProgress" THEN Result("InvalidTradeStatus", t, bal)
    ELSE LET priced == verify_price_for_trade(is_initialized, hub_ok, t.price) IN
    IF priced # "Ok" THEN Result(priced, t, bal)
    ELSE LET xfer == Transfer(bal, Escrow(k), Wallet(t.taker), t.amount) IN
    IF xfer.err # "Ok" THEN Result(xfer.err, t, bal)
    ELSE Result("Ok",
                [t EXCEPT !.status = "Completed", !.updated_at = clk],
                xfer.balance)

complete_trade(t, bal, k, is_initialized, hub_ok, profile_ok, clk) ==
    IF t.status # "InProgress" THEN Result("InvalidTradeStatus", t, bal)
    ELSE LET priced == verify_price_for_trade(is_initialized, hub_ok, t.price) IN
    IF priced # "Ok" THEN Result(priced, t, bal)
    ELSE LET xfer == Transfer(bal, Escrow(k), Wallet(t.taker), t.amount) IN
    IF xfer.err # "Ok" THEN Result(xfer.err, t, bal)
    ELSE LET noted == record_trade_completion(profile_ok) IN
    IF noted # "Ok" THEN Result(noted, t, xfer.balance)
    ELSE Result("Ok",
                [t EXCEPT !.status = "Completed", !.updated_at = clk],
                xfer.balance)

\* cancel_trade with its status guard left out
cancel_trade_NoStatusCheck(t, bal, k, clk) ==
    LET xfer == Transfer(bal, Escrow(k), Wallet(t.maker), t.amount) IN
    IF xfer.err # "Ok" THEN Result(xfer.err, t, bal)
    ELSE Result("Ok",
                [t EXCEPT !.status = "Cancelled", !.updated_at = clk],
                xfer.balance)

cancel_trade(t, bal, k, clk) ==
    IF t.status # "Open" THEN Result("InvalidTradeStatus", t, bal)
    ELSE LET xfer == Transfer(bal, Escrow(k), Wallet(t.maker), t.amount) IN
    IF xfer.err # "Ok" THEN Result(xfer.err, t, bal)
    ELSE Result("Ok",
                [t EXCEPT !.status = "Cancelled", !.updated_at = clk],
                xfer.balance)

\* dispute_trade with its status guard left out
dispute_trade_NoStatusCheck(t, bal, disputer, clk) ==
    IF ~(t.maker = disputer \/ t.taker = disputer)
    THEN Result("UnauthorizedDisputer", t, bal)
    ELSE Result("Ok",
                [t EXCEPT !.status = "Disputed", !.updated_at = clk],
                bal)

\* dispute_trade with its check of the disputer left out
dispute_trade_NoAuthCheck(t, bal, disputer, clk) ==
    IF t.status # "InProgress" THEN Result("InvalidTradeStatus", t, bal)
    ELSE Result("Ok",
                [t EXCEPT !.status = "Disputed", !.updated_at = clk],
                bal)

dispute_trade(t, bal, disputer, clk) ==
    IF ~(t.maker = disputer \/ t.taker = disputer)
    THEN Result("UnauthorizedDisputer", t, bal)
    ELSE IF t.status # "InProgress" THEN Result("InvalidTradeStatus", t, bal)
    ELSE Result("Ok",
                [t EXCEPT !.status = "Disputed", !.updated_at = clk],
                bal)

\* deposit_escrow with its maker guard left out
deposit_escrow_NoMakerCheck(t, bal, k, depositor, amount, clk) ==
    LET xfer == Transfer(bal, Wallet(depositor), Escrow(k), amount) IN
    IF xfer.err # "Ok" THEN Result(xfer.err, t, bal)
    ELSE IF t.status # "Created" THEN Result("InvalidTradeStatus", t, xfer.balance)
    ELSE Result("Ok",
                [t EXCEPT !.status = "Open", !.updated_at = clk],
                xfer.balance)

deposit_escrow(t, bal, k, depositor, amount, clk) ==
    LET xfer == Transfer(bal, Wallet(depositor), Escrow(k), amount) IN
    IF xfer.err # "Ok" THEN Result(xfer.err, t, bal)
    ELSE IF t.maker # depositor THEN Result("UnauthorizedDepositor", t, xfer.balance)
    ELSE IF t.status # "Created" THEN Result("InvalidTradeStatus", t, xfer.balance)
    ELSE Result("Ok",
                [t EXCEPT !.status = "Open", !.updated_at = clk],
                xfer.balance)

\* ------------------------------------------------------ account validation
\* The #[derive(Accounts)] structs: Anchor checks them before the handler runs.

\* Account<'info, Trade>: the account must hold an initialized Trade.
IsTrade(t) == t # NoTrade

\* CreateTrade with init_if_needed in the place of init
CreateTradeAccounts_InitIfNeeded(t) == "Ok"

CreateTradeAccounts(t) ==
    IF IsTrade(t) THEN "AccountAlreadyInUse" ELSE "Ok"

AcceptTradeAccounts(t) ==
    IF ~IsTrade(t) THEN "AccountNotInitialized" ELSE "Ok"

CompleteTradeAccounts(t, k, maker, taker) ==
    IF ~IsTrade(t) THEN "AccountNotInitialized"
    ELSE IF maker # k THEN "ConstraintSeeds"
    ELSE IF maker # t.maker THEN "ConstraintRaw"
    ELSE IF t.taker = None THEN "ProgramFailedToComplete"   \* trade.taker.unwrap()
    ELSE IF taker # t.taker THEN "ConstraintRaw"
    ELSE "Ok"

CancelTradeAccounts(t, k, maker) ==
    IF ~IsTrade(t) THEN "AccountNotInitialized"
    ELSE IF maker # k THEN "ConstraintSeeds"
    ELSE IF maker # t.maker THEN "ConstraintRaw"
    ELSE "Ok"

DisputeTradeAccounts(t) ==
    IF ~IsTrade(t) THEN "AccountNotInitialized" ELSE "Ok"

DepositEscrowAccounts(t) ==
    IF ~IsTrade(t) THEN "AccountNotInitialized" ELSE "Ok"

\* A handler runs only when the accounts validated.
Validated(check, t, bal, res) ==
    IF check # "Ok" THEN Result(check, t, bal) ELSE res

\* ------------------------------------------------------------------ runtime

\* A runtime that keeps what a failed instruction wrote
CommitWithoutRollback(k, res) ==
    /\ trades' = [trades EXCEPT ![k] = res.trade]
    /\ balance' = res.balance

\* A transaction is atomic: the accounts a failed instruction wrote are discarded.
Commit(k, res) ==
    /\ trades' = IF res.err = "Ok" THEN [trades EXCEPT ![k] = res.trade] ELSE trades
    /\ balance' = IF res.err = "Ok" THEN res.balance ELSE balance

\* An instruction as the history keeps it: cpi_ok tells whether the programs
\* it reaches by CPI (price, hub, profile) all answer.
Call(op, k, signers, amount, cpi_ok, res) ==
    /\ Commit(k, res)
    /\ last' = [op |-> op, key |-> k, signers |-> signers, amount |-> amount,
                cpi_ok |-> cpi_ok, err |-> res.err]
    /\ hist' = IF res.err = "Ok" THEN [hist EXCEPT ![k] = @ \cup {op}] ELSE hist
    /\ now' = now
    /\ UNCHANGED ibc_vars
    /\ UNCHANGED offer_vars
    /\ UNCHANGED cw_vars

\* ------------------------------------------------- CosmWasm trade contract: IBC

MaxTimeouts == 2        \* timeouts recorded per channel
MaxTrades == 2          \* trades the relayed requests create

Channels == {"channel-0", "channel-1"}     \* channel ids
IBC_VERSION == "ics"
IbcOrder == {"Unordered", "Ordered"}
Versions == {"ics", "ics20-1"}             \* version strings a channel end may carry
Addrs == {"addr1", "addr2"}                \* addresses on the remote chain
Chains == {"kujira"}                       \* source_chain values

\* cw_storage_plus::Map: a function on the keys that have an entry
EmptyMap == [x \in {} |-> 0]
MapSave(m, key, v) == [x \in DOMAIN m \cup {key} |-> IF x = key THEN v ELSE m[x]]
MapRemove(m, key) == [x \in DOMAIN m \ {key} |-> m[x]]
MapLoadOrDefault(m, key) == IF key \in DOMAIN m THEN m[key] ELSE 0

\* deps.storage
Storage(cc, tc, lg) == [connection_counts |-> cc, timeout_counts |-> tc, ledger |-> lg]

\* What an entry point returns, with the storage at the return.
IbcResult(err, st, res) == [err |-> err, storage |-> st, response |-> res]

\* IbcReceiveResponse / IbcBasicResponse: the acknowledgment set and the messages
NewResponse == [acks |-> <<>>, messages |-> <<>>]
set_ack(res, ack) == [res EXCEPT !.acks = <<ack>>]
add_messages(res, msgs) == [res EXCEPT !.messages = @ \o msgs]

\* Ack, serialized
make_ack_success == <<"Result", "1">>
make_ack_fail(err) == <<"Error", err>>

\* IbcExecuteMsg and its wire form
NewTrades == [taker : Addrs, amount : 0..1]
CreateMsg(a, c, t) ==
    [tag |-> "Create", source_address |-> a, source_chain |-> c, new_trade |-> t]
CancelRequestMsg(a, c, id) ==
    [tag |-> "CancelRequest", source_address |-> a, source_chain |-> c, trade_id |-> id]
IbcExecuteMsg ==
    {CreateMsg(a, c, t) : a \in Addrs, c \in Chains, t \in NewTrades}
    \cup {CancelRequestMsg(a, c, id) : a \in Addrs, c \in Chains, id \in 1..MaxTrades}

to_binary(msg) ==
    IF msg.tag = "Create"
    THEN <<"create", msg.source_address, msg.source_chain, msg.new_trade>>
    ELSE <<"cancel_request", msg.source_address, msg.source_chain, msg.trade_id>>

\* from_binary::<IbcExecuteMsg>: a payload that is no serialized IbcExecuteMsg
\* is a parse error.
from_binary(data) ==
    IF \E m \in IbcExecuteMsg : to_binary(m) = data
    THEN [err |-> "Ok", msg |-> CHOOSE m \in IbcExecuteMsg : to_binary(m) = data]
    ELSE [err |-> "ParseErr"]

\* Payloads a relayer may deliver: every serialized message, and payloads that
\* are truncated, empty or of an unknown variant.
PacketData ==
    {to_binary(m) : m \in IbcExecuteMsg}
    \cup {<<>>, <<"create">>, <<"resolve", "addr1", "kujira">>}

\* crate::contract::_create_trade: a new Trade under the next id
_create_trade(st, new_trade, source_chain) ==
    IF new_trade.amount = 0
    THEN [err |-> "InvalidAmount", storage |-> st, messages |-> <<>>]
    ELSE [err |-> "Ok",
          storage |-> [st EXCEPT !.ledger =
                          Append(@, [taker |-> new_trade.taker, state |-> "Created"])],
          messages |-> <<"update_profile">>]

\* crate::contract::cancel_request
cancel_request(st, source_address, trade_id) ==
    IF trade_id \notin 1..Len(st.ledger)
    THEN [err |-> "NotFound", storage |-> st, messages |-> <<>>]
    ELSE IF st.ledger[trade_id].taker # source_address
    THEN [err |-> "Unauthorized", storage |-> st, messages |-> <<>>]
    ELSE IF st.ledger[trade_id].state # "Created"
    THEN [err |-> "InvalidStatus", storage |-> st, messages |-> <<>>]
    ELSE [err |-> "Ok",
          storage |-> [st EXCEPT !.ledger[trade_id].state = "Canceled"],
          messages |-> <<>>]

\* validate_order_and_version without the check of the counterparty's version
validate_order_and_version_NoCounterpartyCheck(channel, counterparty_version) ==
    IF channel.order # "Unordered" THEN "OrderedChannel"
    ELSE IF channel.version # IBC_VERSION THEN "InvalidVersion"
    ELSE "Ok"

validate_order_and_version(channel, counterparty_version) ==
    IF channel.order # "Unordered" THEN "OrderedChannel"
    ELSE IF channel.version # IBC_VERSION THEN "InvalidVersion"
    ELSE IF counterparty_version # None /\ counterparty_version # IBC_VERSION
    THEN "InvalidVersion"
    ELSE "Ok"

ibc_channel_open(st, channel, counterparty_version) ==
    LET valid == validate_order_and_version(channel, counterparty_version) IN
    IF valid # "Ok" THEN IbcResult(valid, st, NewResponse)
    ELSE IbcResult("Ok", st, NewResponse)

ibc_channel_connect(st, channel, counterparty_version) ==
    LET valid == validate_order_and_version(channel, counterparty_version) IN
    IF valid # "Ok" THEN IbcResult(valid, st, NewResponse)
    ELSE IbcResult("Ok",
                   [st EXCEPT !.connection_counts = MapSave(@, channel.channel_id, 0)],
                   NewResponse)

ibc_channel_close(st, channel) ==
    IbcResult("Ok",
              [st EXCEPT !.connection_counts = MapRemove(@, channel.channel_id)],
              NewResponse)

\* execute_create_trade acknowledging a created trade as a failure
execute_create_trade_FailAckOnSuccess(st, channel_id, new_trade, source_chain) ==
    LET made == _create_trade(st, new_trade, source_chain) IN
    IF made.err # "Ok" THEN IbcResult(made.err, made.storage, NewResponse)
    ELSE IbcResult("Ok", made.storage,
                   add_messages(set_ack(NewResponse, make_ack_fail("Created")),
                                made.messages))

\* execute_create_trade refusing a request whose trade the ledger already holds
execute_create_trade_Dedups(st, channel_id, new_trade, source_chain) ==
    IF \E id \in 1..Len(st.ledger) : st.ledger[id].taker = new_trade.taker
    THEN IbcResult("Duplicate", st, NewResponse)
    ELSE LET made == _create_trade(st, new_trade, source_chain) IN
    IF made.err # "Ok" THEN IbcResult(made.err, made.storage, NewResponse)
    ELSE IbcResult("Ok", made.storage,
                   add_messages(set_ack(NewResponse, make_ack_success), made.messages))

execute_create_trade(st, channel_id, new_trade, source_chain) ==
    LET made == _create_trade(st, new_trade, source_chain) IN
    IF made.err # "Ok" THEN IbcResult(made.err, made.storage, NewResponse)
    ELSE IbcResult("Ok", made.storage,
                   add_messages(set_ack(NewResponse, make_ack_success), made.messages))

execute_cancel_trade(st, channel_id, source_address, source_chain, trade_id) ==
    LET cancelled == cancel_request(st, source_address, trade_id) IN
    IF cancelled.err = "Ok"
    THEN IbcResult("Ok", cancelled.storage,
                   add_messages(set_ack(NewResponse, make_ack_success),
                                cancelled.messages))
    ELSE IbcResult("Ok", cancelled.storage,
                   set_ack(NewResponse, make_ack_fail(cancelled.err)))

do_ibc_packet_receive(st, channel_id, data) ==
    LET decoded == from_binary(data) IN
    IF decoded.err # "Ok" THEN IbcResult(decoded.err, st, NewResponse)
    ELSE IF decoded.msg.tag = "Create"
    THEN execute_create_trade(st, channel_id, decoded.msg.new_trade,
                              decoded.msg.source_chain)
    ELSE execute_cancel_trade(st, channel_id, decoded.msg.source_address,
                              decoded.msg.source_chain, decoded.msg.trade_id)

\* ibc_packet_receive handing the error of do_ibc_packet_receive to the host
ibc_packet_receive_PropagatesError(st, channel_id, data) ==
    do_ibc_packet_receive(st, channel_id, data)

ibc_packet_receive(st, channel_id, data) ==
    LET done == do_ibc_packet_receive(st, channel_id, data) IN
    IF done.err = "Ok" THEN done
    ELSE IbcResult("Ok", done.storage, set_ack(NewResponse, make_ack_fail(done.err)))

\* ibc_packet_ack cancelling the open trades when the acknowledgment is a failure
ibc_packet_ack_CancelsOnError(st, ack) ==
    IF ack[1] = "Error"
    THEN IbcResult("Ok",
                   [st EXCEPT !.ledger = [id \in 1..Len(@) |->
                                             [@[id] EXCEPT !.state = "Canceled"]]],
                   NewResponse)
    ELSE IbcResult("Ok", st, NewResponse)

ibc_packet_ack(st, ack) == IbcResult("Ok", st, NewResponse)

\* ibc_packet_timeout storing 1 whatever the count was
ibc_packet_timeout_ForgetsCount(st, src_channel_id) ==
    IbcResult("Ok",
              [st EXCEPT !.timeout_counts = MapSave(@, src_channel_id, 1)],
              NewResponse)

ibc_packet_timeout(st, src_channel_id) ==
    IbcResult("Ok",
              [st EXCEPT !.timeout_counts =
                  MapSave(@, src_channel_id, MapLoadOrDefault(@, src_channel_id) + 1)],
              NewResponse)

\* ------------------------------------------------- Solana offer program
\* contracts/solana/programs/offer/src/lib.rs: one Offer account and the six
\* instructions create_offer, update_offer, pause_offer, resume_offer,
\* close_offer and take_offer.

U64_BITS == 3                  \* width of the unsigned integers of the model
U64_MAX == 2^U64_BITS - 1

OfferStatus == {"Active", "Paused", "Closed"}
NoOffer == [status |-> "Uninitialized"]   \* the account before create_offer
OfferPrices == {MaxPrice, U64_MAX}        \* price_per_token of the offers
OfferSigners == {"alice", "bob"}          \* signers of the offer instructions

\* Option<u64>
Some(v) == <<v>>
NoneU64 == <<>>
Option(S) == {NoneU64} \cup {Some(v) : v \in S}

\* The Offer account
Offer(creator, amount, price_per_token, min_amount, max_amount, status, created_at, updated_at) ==
    [creator |-> creator, amount |-> amount, price_per_token |-> price_per_token,
     min_amount |-> min_amount, max_amount |-> max_amount, status |-> status,
     created_at |-> created_at, updated_at |-> updated_at]

OfferResult(err, o) == [err |-> err, offer |-> o]

\* u64::wrapping_mul in the place of checked_mul
checked_mul_Wrapping(a, b) == Some((a * b) % (U64_MAX + 1))

\* u64::checked_mul
checked_mul(a, b) == IF a * b > U64_MAX THEN NoneU64 ELSE Some(a * b)

create_offer(o, creator, amount, price_per_token, min_amount, max_amount, clk) ==
    IF ~(min_amount <= max_amount /\ max_amount <= amount)
    THEN OfferResult("InvalidAmounts", o)
    ELSE OfferResult("Ok",
                     Offer(creator, amount, price_per_token, min_amount, max_amount,
                           "Active", clk, clk))

\* The fields update_offer has assigned when it reaches its require!
UpdatedFields(o, price_per_token, min_amount, max_amount) ==
    LET o1 == IF price_per_token # NoneU64
              THEN [o EXCEPT !.price_per_token = price_per_token[1]] ELSE o
        o2 == IF min_amount # NoneU64
              THEN [o1 EXCEPT !.min_amount = min_amount[1]] ELSE o1
    IN  IF max_amount # NoneU64
        THEN [o2 EXCEPT !.max_amount = max_amount[1]] ELSE o2

\* update_offer without the validation that follows its assignments
update_offer_NoValidation(o, price_per_token, min_amount, max_amount, clk) ==
    OfferResult("Ok", [UpdatedFields(o, price_per_token, min_amount, max_amount)
                           EXCEPT !.updated_at = clk])

update_offer(o, price_per_token, min_amount, max_amount, clk) ==
    LET u == UpdatedFields(o, price_per_token, min_amount, max_amount) IN
    IF ~(u.min_amount <= u.max_amount /\ u.max_amount <= u.amount)
    THEN OfferResult("InvalidAmounts", u)
    ELSE OfferResult("Ok", [u EXCEPT !.updated_at = clk])

pause_offer(o, clk) ==
    IF o.status # "Active" THEN OfferResult("InvalidStatus", o)
    ELSE OfferResult("Ok", [o EXCEPT !.status = "Paused", !.updated_at = clk])

resume_offer(o, clk) ==
    IF o.status # "Paused" THEN OfferResult("InvalidStatus", o)
    ELSE OfferResult("Ok", [o EXCEPT !.status = "Active", !.updated_at = clk])

\* close_offer with its status guard left out
close_offer_NoStatusCheck(o, clk) ==
    OfferResult("Ok", [o EXCEPT !.status = "Closed", !.updated_at = clk])

close_offer(o, clk) ==
    IF ~(o.status = "Active" \/ o.status = "Paused") THEN OfferResult("InvalidStatus", o)
    ELSE OfferResult("Ok", [o EXCEPT !.status = "Closed", !.updated_at = clk])

\* trade::create_trade_instruction: the create_trade instruction of the trade
\* program for the trade PDA of the offer's creator
create_trade_instruction(maker, amount, price) ==
    [op |-> "create_trade", maker |-> maker, amount |-> amount, price |-> price]

\* solana_program::program::invoke: the runtime either refuses the instruction
\* (accounts or signer privileges it does not accept) or runs the trade
\* program on it.
invoke(ix, t, bal, accepted, clk) ==
    IF ~accepted THEN Result("MissingRequiredSignature", t, bal)
    ELSE Validated(CreateTradeAccounts(t), t, bal,
                   create_trade(bal, ix.maker, ix.maker, ix.amount, ix.price, clk))

\* What take_offer returns: the error code, the offer, and the trade account
\* and token balances as the invoked program left them.
TakeResult(err, o, t, bal) == [err |-> err, offer |-> o, trade |-> t, balance |-> bal]

\* take_offer without its amount range check
take_offer_NoAmountCheck(o, t, bal, amount, accepted, clk) ==
    IF o.status # "Active" THEN TakeResult("InvalidStatus", o, t, bal)
    ELSE LET total_price == checked_mul(amount, o.price_per_token) IN
         IF total_price = NoneU64 THEN TakeResult("CalculationError", o, t, bal)
         ELSE LET cpi == invoke(create_trade_instruction(o.creator, amount, total_price[1]),
                                t, bal, accepted, clk)
              IN  TakeResult(cpi.err, o, cpi.trade, cpi.balance)

take_offer(o, t, bal, amount, accepted, clk) ==
    IF o.status # "Active" THEN TakeResult("InvalidStatus", o, t, bal)
    ELSE IF ~(amount >= o.min_amount /\ amount <= o.max_amount)
    THEN TakeResult("InvalidAmount", o, t, bal)
    ELSE LET total_price == checked_mul(amount, o.price_per_token) IN
         IF total_price = NoneU64 THEN TakeResult("CalculationError", o, t, bal)
         ELSE LET cpi == invoke(create_trade_instruction(o.creator, amount, total_price[1]),
                                t, bal, accepted, clk)
              IN  TakeResult(cpi.err, o, cpi.trade, cpi.balance)

\* Account<'info, Offer>: the account must hold an initialized Offer.
IsOffer(o) == o # NoOffer

\* #[account(init, ...)]: the account must not exist yet
CreateOfferAccounts(o) ==
    IF IsOffer(o) THEN "AccountAlreadyInUse" ELSE "Ok"

\* #[account(mut, has_one = creator)] of UpdateOffer
UpdateOfferAccounts(o, creator) ==
    IF ~IsOffer(o) THEN "AccountNotInitialized"
    ELSE IF o.creator # creator THEN "ConstraintHasOne"
    ELSE "Ok"

\* #[account(mut, has_one = creator)] of OfferStatusUpdate
OfferStatusUpdateAccounts(o, creator) ==
    IF ~IsOffer(o) THEN "AccountNotInitialized"
    ELSE IF o.creator # creator THEN "ConstraintHasOne"
    ELSE "Ok"

TakeOfferAccounts(o) ==
    IF ~IsOffer(o) THEN "AccountNotInitialized" ELSE "Ok"

\* A handler runs only when the accounts validated.
OfferValidated(check, o, res) ==
    IF check # "Ok" THEN OfferResult(check, o) ELSE res

\* A transaction is atomic: the offer a failed instruction wrote is discarded.
OfferCommit(res) ==
    offer' = IF res.err = "Ok" THEN res.offer ELSE offer

\* An offer instruction as the history keeps it
OfferCall(op, signer, amount, res) ==
    /\ OfferCommit(res)
    /\ offer_last' = [op |-> op, signer |-> signer, amount |-> amount, err |-> res.err]
    /\ UNCHANGED ibc_vars
    /\ UNCHANGED cw_vars

\* ------------------------------------------------ CosmWasm offer contract
\* contracts/cosmwasm/contracts/offer/src/contract.rs: instantiate and the
\* three execute messages RegisterHub, Create and UpdateOffer.  The offer
\* fields the entry points only pass on (offer_type, fiat_currency, rate,
\* denom, timestamp, the owner's contact) are left out.

MaxOffers == 2                 \* offers the contract is asked to store

OfferIds == 1..(MaxOffers + 1)             \* ids an UpdateOffer may name
CwAmounts == {1, 2}                     \* min_amount, max_amount of a message
Descriptions == {"short", "too long"}      \* description of a message
OfferState == {"Active", "Paused", "Closed"}

\* The contract's storage: OFFERS_COUNT, the hub registration, the offers by id
OfferStorage(count, hub, by_id) == [offers_count |-> count, hub |-> hub, offers |-> by_id]

\* Before instantiate nothing is stored.
EmptyOfferStorage == OfferStorage(NoneU64, None, EmptyMap)

\* What an entry point returns, with the storage at the return.
CwResult(err, st) == [err |-> err, storage |-> st]

\* OfferMsg and OfferUpdateMsg
OfferMsg(min_amount, max_amount, description) ==
    [min_amount |-> min_amount, max_amount |-> max_amount, description |-> description]

OfferUpdateMsg(id, min_amount, max_amount, state, description) ==
    [id |-> id, min_amount |-> min_amount, max_amount |-> max_amount,
     state |-> state, description |-> description]

\* localmoney_protocol::guards
assert_min_g_max(min, max) == IF min >= max THEN "InvalidMinMax" ELSE "Ok"

assert_offer_description_valid(description) ==
    IF description = "too long" THEN "InvalidParameter" ELSE "Ok"

assert_ownership(caller, owner) == IF caller # owner THEN "Unauthorized" ELSE "Ok"

\* localmoney_protocol::hub_utils
get_hub_config(st) == IF st.hub = None THEN "HubNotRegistered" ELSE "Ok"

register_hub_internal(st, sender) ==
    IF st.hub # None THEN CwResult("HubAlreadyRegistered", st)
    ELSE CwResult("Ok", [st EXCEPT !.hub = sender])

\* localmoney_protocol::offer::OfferModel
OfferModel_create(st, o) == [st EXCEPT !.offers = MapSave(@, o.id, o)]

OfferModel_update(st, o, msg) ==
    [st EXCEPT !.offers = MapSave(@, o.id,
                                  [o EXCEPT !.min_amount = msg.min_amount,
                                            !.max_amount = msg.max_amount,
                                            !.state = msg.state,
                                            !.description = msg.description])]

instantiate(st) == CwResult("Ok", [st EXCEPT !.offers_count = Some(0)])

register_hub(st, sender) == register_hub_internal(st, sender)

\* create_offer that takes the id before it increments the count
cw_create_offer_IdBeforeIncrement(st, sender, msg) ==
    IF get_hub_config(st) # "Ok" THEN CwResult(get_hub_config(st), st)
    ELSE IF assert_min_g_max(msg.min_amount, msg.max_amount) # "Ok"
    THEN CwResult(assert_min_g_max(msg.min_amount, msg.max_amount), st)
    ELSE IF assert_offer_description_valid(msg.description) # "Ok"
    THEN CwResult(assert_offer_description_valid(msg.description), st)
    ELSE IF st.offers_count = NoneU64 THEN CwResult("NotFound", st)
    ELSE LET offer_id == st.offers_count[1]
             count == st.offers_count[1] + 1
             stored == OfferModel_create(st, [id |-> offer_id, owner |-> sender,
                                              min_amount |-> msg.min_amount,
                                              max_amount |-> msg.max_amount,
                                              state |-> "Active",
                                              description |-> msg.description])
         IN  CwResult("Ok", [stored EXCEPT !.offers_count = Some(count)])

\* create_offer of the CosmWasm contract
cw_create_offer(st, sender, msg) ==
    IF get_hub_config(st) # "Ok" THEN CwResult(get_hub_config(st), st)
    ELSE IF assert_min_g_max(msg.min_amount, msg.max_amount) # "Ok"
    THEN CwResult(assert_min_g_max(msg.min_amount, msg.max_amount), st)
    ELSE IF assert_offer_description_valid(msg.description) # "Ok"
    THEN CwResult(assert_offer_description_valid(msg.description), st)
    ELSE IF st.offers_count = NoneU64 THEN CwResult("NotFound", st)
    ELSE LET count == st.offers_count[1] + 1
             offer_id == count
             stored == OfferModel_create(st, [id |-> offer_id, owner |-> sender,
                                              min_amount |-> msg.min_amount,
                                              max_amount |-> msg.max_amount,
                                              state |-> "Active",
                                              description |-> msg.description])
         IN  CwResult("Ok", [stored EXCEPT !.offers_count = Some(count)])

\* update_offer of the CosmWasm contract
cw_update_offer(st, sender, msg) ==
    IF assert_min_g_max(msg.min_amount, msg.max_amount) # "Ok"
    THEN CwResult(assert_min_g_max(msg.min_amount, msg.max_amount), st)
    ELSE IF get_hub_config(st) # "Ok" THEN CwResult(get_hub_config(st), st)
    ELSE IF msg.id \notin DOMAIN st.offers THEN CwResult("NotFound", st)
    ELSE LET o == st.offers[msg.id] IN
         IF assert_ownership(sender, o.owner) # "Ok"
         THEN CwResult(assert_ownership(sender, o.owner), st)
         ELSE IF assert_offer_description_valid(msg.description) # "Ok"
         THEN CwResult(assert_offer_description_valid(msg.description), st)
         ELSE CwResult("Ok", OfferModel_update(st, o, msg))

\* execute: the dispatch on ExecuteMsg
execute(st, sender, msg) ==
    CASE msg.kind = "RegisterHub" -> register_hub(st, sender)
      [] msg.kind = "Create" -> cw_create_offer(st, sender, msg.offer)
      [] msg.kind = "UpdateOffer" -> cw_update_offer(st, sender, msg.offer_update)

\* The host keeps the storage an entry point wrote only when it returned Ok.
CwCommit(res) ==
    cw_storage' = IF res.err = "Ok" THEN res.storage ELSE cw_storage

\* An entry point call as the history keeps it
CwCall(op, sender, id, res) ==
    /\ CwCommit(res)
    /\ cw_last' = [op |-> op, sender |-> sender, id |-> id, err |-> res.err]
    /\ UNCHANGED trade_vars
    /\ UNCHANGED ibc_vars
    /\ UNCHANGED offer_vars

\* ------------------------------------------------------------------ actions

Init ==
    /\ trades = [k \in Makers |-> NoTrade]
    /\ balance = [a \in TokenAccounts |-> IF a[1] = "wallet" THEN InitBalance ELSE 0]
    /\ now = 0
    /\ last = [op |-> "none", key |-> None, signers |-> <<>>, amount |-> 0,
               cpi_ok |-> TRUE, err |-> "Ok"]
    /\ hist = [k \in Makers |-> {}]
    /\ channel_state = [c \in Channels |-> "Uninit"]
    /\ connection_counts = EmptyMap
    /\ timeout_counts = EmptyMap
    /\ ledger = <<>>
    /\ ibc_last = [op |-> "none", channel |-> None, handshake |-> <<>>, kind |-> "none",
                   data |-> <<>>, applied |-> FALSE, err |-> "Ok", acks |-> <<>>,
                   messages |-> <<>>]
    /\ offer = NoOffer
    /\ offer_last = [op |-> "none", signer |-> None, amount |-> 0, err |-> "Ok"]
    /\ cw_storage = EmptyOfferStorage
    /\ cw_last = [op |-> "none", sender |-> None, id |-> 0, err |-> "Ok"]

CreateTrade ==
    \E k \in Makers, amount \in Amounts, price \in Prices :
        Call("create_trade", k, <<k>>, amount, TRUE,
             Validated(CreateTradeAccounts(trades[k]), trades[k], balance,
                       create_trade(balance, k, k, amount, price, now)))

DepositEscrow ==
    \E k \in Makers, depositor \in Users, amount \in Amounts :
        Call("deposit_escrow", k, <<depositor>>, amount, TRUE,
             Validated(DepositEscrowAccounts(trades[k]), trades[k], balance,
                       deposit_escrow(trades[k], balance, k, depositor, amount, now)))

AcceptTrade ==
    \E k \in Makers, taker \in Users :
        Call("accept_trade", k, <<taker>>, 0, TRUE,
             Validated(AcceptTradeAccounts(trades[k]), trades[k], balance,
                       accept_trade(trades[k], balance, taker, now)))

CompleteTrade ==
    \E k \in Makers, maker \in Users, taker \in Users,
       is_initialized \in BOOLEAN, hub_ok \in BOOLEAN, profile_ok \in BOOLEAN :
        Call("complete_trade", k, <<maker, taker>>, 0,
             is_initialized /\ hub_ok /\ profile_ok,
             Validated(CompleteTradeAccounts(trades[k], k, maker, taker),
                       trades[k], balance,
                       complete_trade(trades[k], balance, k, is_initialized,
                                      hub_ok, profile_ok, now)))

CancelTrade ==
    \E k \in Makers, maker \in Users :
        Call("cancel_trade", k, <<maker>>, 0, TRUE,
             Validated(CancelTradeAccounts(trades[k], k, maker), trades[k], balance,
                       cancel_trade(trades[k], balance, k, now)))

DisputeTrade ==
    \E k \in Makers, disputer \in Users :
        Call("dispute_trade", k, <<disputer>>, 0, TRUE,
             Validated(DisputeTradeAccounts(trades[k]), trades[k], balance,
                       dispute_trade(trades[k], balance, disputer, now)))

\* The cluster clock advances between transactions.
Tick ==
    /\ now < MaxTime
    /\ now' = now + 1
    /\ UNCHANGED <<trades, balance, last, hist>>
    /\ UNCHANGED ibc_vars
    /\ UNCHANGED offer_vars
    /\ UNCHANGED cw_vars

Next ==
    \/ CreateTrade
    \/ DepositEscrow
    \/ AcceptTrade
    \/ CompleteTrade
    \/ CancelTrade
    \/ DisputeTrade
    \/ Tick

Spec == Init /\ [][Next]_vars

TypeOK ==
    /\ now \in 0..MaxTime
    /\ \A a \in TokenAccounts : balance[a] \in Nat
    /\ \A k \in Makers : trades[k] = NoTrade \/ trades[k].status \in TradeStatus

\* ------------------------------------------------------------- IBC actions

CurrentStorage == Storage(connection_counts, timeout_counts, ledger)

IbcChannel(c, order, version) == [channel_id |-> c, order |-> order, version |-> version]

\* The host keeps the storage an entry point wrote only when it returned Ok.
IbcCommit(res) ==
    LET st == IF res.err = "Ok" THEN res.storage ELSE CurrentStorage IN
    /\ connection_counts' = st.connection_counts
    /\ timeout_counts' = st.timeout_counts
    /\ ledger' = st.ledger

IbcCall(op, c, handshake, kind, data, applied, res) ==
    /\ IbcCommit(res)
    /\ ibc_last' = [op |-> op, channel |-> c, handshake |-> handshake, kind |-> kind,
                    data |-> data, applied |-> applied, err |-> res.err,
                    acks |-> res.response.acks, messages |-> res.response.messages]
    /\ UNCHANGED trade_vars
    /\ UNCHANGED offer_vars
    /\ UNCHANGED cw_vars

NoHandshake == <<>>

\* OpenInit / OpenTry on a channel the host has not opened yet
IbcChannelOpen ==
    \E c \in Channels, order \in IbcOrder, version \in Versions,
       counterparty_version \in Versions \cup {None} :
        LET res == ibc_channel_open(CurrentStorage, IbcChannel(c, order, version),
                                    counterparty_version) IN
        /\ channel_state[c] = "Uninit"
        /\ channel_state' = IF res.err = "Ok"
                            THEN [channel_state EXCEPT ![c] = "Init"] ELSE channel_state
        /\ IbcCall("ibc_channel_open", c, <<order, version, counterparty_version>>,
                   "none", <<>>, FALSE, res)

\* OpenAck / OpenConfirm
IbcChannelConnect ==
    \E c \in Channels, order \in IbcOrder, version \in Versions,
       counterparty_version \in Versions \cup {None} :
        LET res == ibc_channel_connect(CurrentStorage, IbcChannel(c, order, version),
                                       counterparty_version) IN
        /\ channel_state[c] = "Init"
        /\ channel_state' = IF res.err = "Ok"
                            THEN [channel_state EXCEPT ![c] = "Open"] ELSE channel_state
        /\ IbcCall("ibc_channel_connect", c, <<order, version, counterparty_version>>,
                   "none", <<>>, FALSE, res)

IbcChannelClose ==
    \E c \in Channels :
        /\ channel_state[c] = "Open"
        /\ channel_state' = [channel_state EXCEPT ![c] = "Closed"]
        /\ IbcCall("ibc_channel_close", c, NoHandshake, "none", <<>>, FALSE,
                   ibc_channel_close(CurrentStorage, IbcChannel(c, "Unordered", IBC_VERSION)))

\* Whether the request a payload carries is applied by the contract.
Applied(st, data) ==
    LET decoded == from_binary(data) IN
    /\ decoded.err = "Ok"
    /\ IF decoded.msg.tag = "Create"
       THEN _create_trade(st, decoded.msg.new_trade, decoded.msg.source_chain).err = "Ok"
       ELSE cancel_request(st, decoded.msg.source_address, decoded.msg.trade_id).err = "Ok"

PacketKind(data) ==
    IF from_binary(data).err = "Ok" THEN from_binary(data).msg.tag ELSE "Undecodable"

IbcPacketReceive ==
    \E c \in Channels, data \in PacketData :
        LET res == ibc_packet_receive(CurrentStorage, c, data) IN
        /\ channel_state[c] = "Open"
        /\ Len(res.storage.ledger) <= MaxTrades
        /\ UNCHANGED channel_state
        /\ IbcCall("ibc_packet_receive", c, NoHandshake, PacketKind(data), data,
                   Applied(CurrentStorage, data), res)

IbcPacketAck ==
    \E c \in Channels, ack \in {make_ack_success, make_ack_fail("NotFound")} :
        /\ channel_state[c] = "Open"
        /\ UNCHANGED channel_state
        /\ IbcCall("ibc_packet_ack", c, NoHandshake, ack[1], <<>>, FALSE,
                   ibc_packet_ack(CurrentStorage, ack))

IbcPacketTimeout ==
    \E c \in Channels :
        /\ channel_state[c] = "Open"
        /\ MapLoadOrDefault(timeout_counts, c) < MaxTimeouts
        /\ UNCHANGED channel_state
        /\ IbcCall("ibc_packet_timeout", c, NoHandshake, "none", <<>>, FALSE,
                   ibc_packet_timeout(CurrentStorage, c))

NextIbc ==
    \/ IbcChannelOpen
    \/ IbcChannelConnect
    \/ IbcChannelClose
    \/ IbcPacketReceive
    \/ IbcPacketAck
    \/ IbcPacketTimeout

SpecIbc == Init /\ [][NextIbc]_vars

IbcTypeOK ==
    /\ \A c \in Channels : channel_state[c] \in {"Uninit", "Init", "Open", "Closed"}
    /\ DOMAIN connection_counts \subseteq Channels
    /\ DOMAIN timeout_counts \subseteq Channels
    /\ \A c \in DOMAIN timeout_counts : timeout_counts[c] \in 1..MaxTimeouts
    /\ Len(ledger) <= MaxTrades

\* ----------------------------------------------------------- offer actions

\* The arguments matter only to a handler that runs.
CreateOffer ==
    \E creator \in Makers :
        LET check == CreateOfferAccounts(offer) IN
        /\ IF check # "Ok"
           THEN OfferCall("create_offer", creator, 0, OfferResult(check, offer))
           ELSE \E amount \in Amounts, price_per_token \in OfferPrices,
                   min_amount \in Amounts, max_amount \in Amounts :
                    OfferCall("create_offer", creator, 0,
                              create_offer(offer, creator, amount, price_per_token,
                                           min_amount, max_amount, now))
        /\ UNCHANGED trade_vars

UpdateOffer ==
    \E creator \in OfferSigners :
        LET check == UpdateOfferAccounts(offer, creator) IN
        /\ IF check # "Ok"
           THEN OfferCall("update_offer", creator, 0, OfferResult(check, offer))
           ELSE \E price_per_token \in Option(OfferPrices),
                   min_amount \in Option(Amounts), max_amount \in Option(Amounts) :
                    OfferCall("update_offer", creator, 0,
                              update_offer(offer, price_per_token, min_amount,
                                           max_amount, now))
        /\ UNCHANGED trade_vars

PauseOffer ==
    \E creator \in OfferSigners :
        /\ OfferCall("pause_offer", creator, 0,
                     OfferValidated(OfferStatusUpdateAccounts(offer, creator), offer,
                                    pause_offer(offer, now)))
        /\ UNCHANGED trade_vars

ResumeOffer ==
    \E creator \in OfferSigners :
        /\ OfferCall("resume_offer", creator, 0,
                     OfferValidated(OfferStatusUpdateAccounts(offer, creator), offer,
                                    resume_offer(offer, now)))
        /\ UNCHANGED trade_vars

CloseOffer ==
    \E creator \in OfferSigners :
        /\ OfferCall("close_offer", creator, 0,
                     OfferValidated(OfferStatusUpdateAccounts(offer, creator), offer,
                                    close_offer(offer, now)))
        /\ UNCHANGED trade_vars

\* The trade PDA take_offer is given is the one of the offer's creator.
TakeOffer ==
    \E taker \in OfferSigners, amount \in Amounts, accepted \in BOOLEAN :
        LET check == TakeOfferAccounts(offer)
            k == IF check = "Ok" THEN offer.creator ELSE CHOOSE m \in Makers : TRUE
            res == IF check # "Ok" THEN TakeResult(check, offer, trades[k], balance)
                   ELSE take_offer(offer, trades[k], balance, amount, accepted, now)
        IN  /\ OfferCall("take_offer", taker, amount, res)
            /\ Commit(k, res)
            /\ UNCHANGED <<now, last, hist>>

NextOffer ==
    \/ CreateOffer
    \/ UpdateOffer
    \/ PauseOffer
    \/ ResumeOffer
    \/ CloseOffer
    \/ TakeOffer
    \/ Tick

SpecOffer == Init /\ [][NextOffer]_vars

OfferTypeOK ==
    \/ offer = NoOffer
    \/ /\ offer.creator \in Makers
       /\ offer.status \in OfferStatus
       /\ offer.amount \in Amounts
       /\ offer.min_amount \in Amounts
       /\ offer.max_amount \in Amounts
       /\ offer.price_per_token \in OfferPrices
       /\ offer.created_at \in 0..MaxTime
       /\ offer.updated_at \in 0..MaxTime

\* ------------------------------------------------ CosmWasm offer actions

Instantiated == cw_storage.offers_count # NoneU64

\* The chain instantiates a contract once, before any execute.
CwInstantiate ==
    /\ ~Instantiated
    /\ \E sender \in Addrs : CwCall("instantiate", sender, 0, instantiate(cw_storage))

CwRegisterHub ==
    /\ Instantiated
    /\ \E sender \in Addrs :
          CwCall("register_hub", sender, 0,
                 execute(cw_storage, sender, [kind |-> "RegisterHub"]))

\* Creations are capped at MaxOffers stored offers.
CwCreateOffer ==
    /\ Instantiated
    /\ \E sender \in Addrs, min_amount \in CwAmounts, max_amount \in CwAmounts,
          description \in Descriptions :
          LET res == execute(cw_storage, sender,
                             [kind |-> "Create",
                              offer |-> OfferMsg(min_amount, max_amount, description)])
          IN  /\ res.storage.offers_count[1] <= MaxOffers
              /\ CwCall("create_offer", sender, 0, res)

CwUpdateOffer ==
    /\ Instantiated
    /\ \E sender \in Addrs, id \in OfferIds, min_amount \in CwAmounts,
          max_amount \in CwAmounts, state \in OfferState, description \in Descriptions :
          CwCall("update_offer", sender, id,
                 execute(cw_storage, sender,
                         [kind |-> "UpdateOffer",
                          offer_update |-> OfferUpdateMsg(id, min_amount, max_amount,
                                                          state, description)]))

NextCw ==
    \/ CwInstantiate
    \/ CwRegisterHub
    \/ CwCreateOffer
    \/ CwUpdateOffer

SpecCw == Init /\ [][NextCw]_vars

CwTypeOK ==
    /\ cw_storage.offers_count \in Option(0..MaxOffers)
    /\ cw_storage.hub \in Addrs \cup {None}
    /\ \A id \in DOMAIN cw_storage.offers :
          /\ cw_storage.offers[id].owner \in Addrs
          /\ cw_storage.offers[id].state \in OfferState

\* ------------------------------------------------------------------ claims

Funded == {"Open", "InProgress", "Disputed"}
Released == {"complete_trade", "cancel_trade"}

\* A step that executes an instruction (the clock stands still during it).
CallStep(op, k) == now' = now /\ last'.op = op /\ last'.key = k

\* C1: for every trade, the escrow balance is positive only in a funded status
\* (Open, InProgress, Disputed) and zero only outside those statuses.
C1_EscrowIffFunded ==
    \A k \in Makers : IsTrade(trades[k]) =>
        /\ (balance[Escrow(k)] > 0 => trades[k].status \in Funded)
        /\ (balance[Escrow(k)] = 0 => trades[k].status \notin Funded)

\* C2: in a funded status the escrow balance equals the trade's recorded amount,
\* whatever amount was passed to deposit_escrow; in every other status it is zero.
C2_EscrowEqualsAmount ==
    \A k \in Makers : IsTrade(trades[k]) =>
        balance[Escrow(k)] = IF trades[k].status \in Funded THEN trades[k].amount ELSE 0

\* C3: funding gates acceptance: accept_trade succeeds only after a successful
\* deposit_escrow, accept_trade on a Created trade fails with InvalidTradeStatus,
\* and when the taker is bound the escrow holds the trade's full amount.
C3_FundingGatesAcceptance ==
    [][\A k \in Makers : CallStep("accept_trade", k) =>
          /\ (IsTrade(trades[k]) /\ trades[k].status = "Created"
                => last'.err = "InvalidTradeStatus")
          /\ (last'.err = "Ok" =>
                /\ "deposit_escrow" \in hist[k]
                /\ balance'[Escrow(k)] >= trades'[k].amount)]_vars

\* C4: complete_trade succeeds only after a successful deposit_escrow with no
\* successful cancel_trade since, and cancel_trade never succeeds after a
\* successful complete_trade.
C4_CompleteOnlyFundedUncancelled ==
    [][\A k \in Makers : (now' = now /\ last'.key = k /\ last'.err = "Ok") =>
          /\ (last'.op = "complete_trade" =>
                "deposit_escrow" \in hist[k] /\ "cancel_trade" \notin hist[k])
          /\ (last'.op = "cancel_trade" => "complete_trade" \notin hist[k])]_vars

C4_Witness ==
    \E k \in Makers :
        /\ last.op = "complete_trade" /\ last.err = "Ok" /\ last.key = k
        /\ {"deposit_escrow", "complete_trade"} \subseteq hist[k]

\* C5: tokens leave a trade's escrow at most once, in one transfer of the whole
\* escrowed balance to one destination (the taker on complete_trade, the maker on
\* cancel_trade); afterwards the escrow is empty and no call changes its balance.
C5_EscrowEmptiedOnce ==
    [][\A k \in Makers :
          /\ (balance'[Escrow(k)] < balance[Escrow(k)] =>
                /\ hist[k] \cap Released = {}
                /\ last'.op \in Released
                /\ balance'[Escrow(k)] = 0
                /\ LET to == IF last'.op = "complete_trade"
                             THEN trades[k].taker ELSE trades[k].maker IN
                   \A u \in Users : balance'[Wallet(u)] =
                       balance[Wallet(u)] + (IF u = to THEN balance[Escrow(k)] ELSE 0))
          /\ (hist[k] \cap Released # {} =>
                balance[Escrow(k)] = 0 /\ balance'[Escrow(k)] = 0)]_vars

\* C6: a cancel_trade by the maker after a successful deposit_escrow and before
\* any accept_trade succeeds, returns exactly the escrowed amount to the maker
\* (who then holds the balance held before funding), empties the escrow and sets
\* the status to Cancelled; a second cancel_trade returns nothing more.
C6_CancelRefundsMaker ==
    [][\A k \in Makers :
          /\ (CallStep("cancel_trade", k) /\ last'.signers = <<k>>
              /\ IsTrade(trades[k]) /\ trades[k].status = "Open") =>
                /\ last'.err = "Ok"
                /\ balance'[Wallet(k)] = balance[Wallet(k)] + balance[Escrow(k)]
                /\ balance'[Wallet(k)] = InitBalance
                /\ balance'[Escrow(k)] = 0
                /\ trades'[k].status = "Cancelled"
          /\ (CallStep("cancel_trade", k) /\ "cancel_trade" \in hist[k]) =>
                balance' = balance]_vars

C8_SecondCallInvalidStatus ==
    [][(/\ now' = now
        /\ last.err = "Ok"
        /\ last.op \in Ops \ {"create_trade"}
        /\ last'.op = last.op /\ last'.key = last.key
        /\ last'.signers = last.signers /\ last'.amount = last.amount) =>
          /\ last'.err = "InvalidTradeStatus"
          /\ trades' = trades /\ balance' = balance]_vars

\* C9: every status change follows the transition table (Created -> Open by
\* deposit_escrow, Open -> InProgress by accept_trade, InProgress -> Completed by
\* complete_trade, InProgress -> Disputed by dispute_trade, Created or Open ->
\* Cancelled by cancel_trade); Completed and Cancelled are terminal.
TransitionTable ==
    {<<"Created", "deposit_escrow", "Open">>,
     <<"Open", "accept_trade", "InProgress">>,
     <<"InProgress", "complete_trade", "Completed">>,
     <<"InProgress", "dispute_trade", "Disputed">>,
     <<"Created", "cancel_trade", "Cancelled">>,
     <<"Open", "cancel_trade", "Cancelled">>}

C9_TransitionTable ==
    [][\A k \in Makers : IsTrade(trades[k]) =>
          /\ IsTrade(trades'[k])
          /\ (trades'[k].status # trades[k].status =>
                <<trades[k].status, last'.op, trades'[k].status>> \in TransitionTable)
          /\ (trades[k].status \in {"Completed", "Cancelled"} =>
                trades'[k].status = trades[k].status)]_vars

C9_Witness ==
    \E k \in Makers :
        /\ IsTrade(trades[k]) /\ trades[k].status = "Disputed"
        /\ last.op = "dispute_trade" /\ last.err = "Ok"

\* C10: the taker is absent exactly when the trade has never been accepted
\* (Created, Open, Cancelled) and present in InProgress, Disputed and Completed;
\* once bound by accept_trade it is never changed or cleared.
TakerBoundIffAccepted ==
    \A k \in Makers : IsTrade(trades[k]) =>
        /\ (trades[k].taker = None <=> "accept_trade" \notin hist[k])
        /\ (trades[k].taker = None <=> trades[k].status \in {"Created", "Open", "Cancelled"})
        /\ (trades[k].taker # None <=> trades[k].status \in {"InProgress", "Disputed", "Completed"})

C10_TakerBoundOnceAccepted ==
    /\ []TakerBoundIffAccepted
    /\ [][\A k \in Makers : (IsTrade(trades[k]) /\ trades[k].taker # None) =>
             IsTrade(trades'[k]) /\ trades'[k].taker = trades[k].taker]_vars

C10_Witness ==
    \E k \in Makers :
        /\ IsTrade(trades[k]) /\ trades[k].taker # None
        /\ trades[k].status \in {"Disputed", "Completed"}
        /\ last.op \in {"accept_trade", "deposit_escrow"} /\ last.err # "Ok"

\* The tolerance complete_trade hands to the price program, in basis points.
ToleranceBps == 100

\* What the price oracle may report: PriceState stores no price and
\* verify_price_for_trade reads none, so the oracle price is any price of the
\* environment.
OraclePrices == 1..MaxPrice

Abs(x) == IF x < 0 THEN -x ELSE x

OutOfTolerance(trade_price, oracle_price) ==
    Abs(trade_price - oracle_price) * 10000 > ToleranceBps * oracle_price

\* A complete_trade signed by the trade's maker and taker, with every program
\* reached by CPI answering and the escrow holding the trade's amount.
WellFormedComplete(k) ==
    /\ CallStep("complete_trade", k)
    /\ IsTrade(trades[k]) /\ trades[k].status = "InProgress"
    /\ last'.signers = <<trades[k].maker, trades[k].taker>>
    /\ last'.cpi_ok
    /\ balance[Escrow(k)] >= trades[k].amount

\* C11: complete_trade on an accepted (InProgress) trade is rejected with a
\* price-mismatch error whenever the recorded price differs from the oracle price
\* by more than 1%; the status then stays InProgress and the escrow is unchanged.
C11_PriceMismatchRejected ==
    [][\A k \in Makers, oracle_price \in OraclePrices :
          (WellFormedComplete(k) /\ OutOfTolerance(trades[k].price, oracle_price)) =>
              /\ last'.err = "PriceMismatch"
              /\ trades'[k].status = "InProgress"
              /\ balance'[Escrow(k)] = balance[Escrow(k)]]_vars

\* The balances of every token account other than those listed are unchanged.
OthersUnchanged(accounts) ==
    \A a \in TokenAccounts \ accounts : balance'[a] = balance[a]

\* A trade of the happy path: created with a positive amount and price.
Positive(t) == IsTrade(t) /\ t.amount > 0 /\ t.price > 0

HappyCreate(k) ==
    (CallStep("create_trade", k) /\ ~IsTrade(trades[k]) /\ last'.amount > 0) =>
        /\ last'.err = "Ok"
        /\ IsTrade(trades'[k])
        /\ trades'[k].maker = k /\ trades'[k].taker = None
        /\ trades'[k].amount = last'.amount /\ trades'[k].status = "Created"
        /\ balance'[Escrow(k)] = 0
        /\ OthersUnchanged({Escrow(k)})

HappyDeposit(k) ==
    (/\ CallStep("deposit_escrow", k)
     /\ Positive(trades[k]) /\ trades[k].status = "Created"
     /\ last'.signers = <<trades[k].maker>>
     /\ last'.amount = trades[k].amount
     /\ balance[Wallet(trades[k].maker)] >= trades[k].amount) =>
        /\ last'.err = "Ok"
        /\ trades'[k] = [trades[k] EXCEPT !.status = "Open", !.updated_at = now]
        /\ balance'[Escrow(k)] = balance[Escrow(k)] + trades[k].amount
        /\ balance'[Wallet(trades[k].maker)] =
               balance[Wallet(trades[k].maker)] - trades[k].amount
        /\ OthersUnchanged({Escrow(k), Wallet(trades[k].maker)})

HappyAccept(k) ==
    (/\ CallStep("accept_trade", k)
     /\ Positive(trades[k]) /\ trades[k].status = "Open") =>
        /\ last'.err = "Ok"
        /\ trades'[k] = [trades[k] EXCEPT !.taker = last'.signers[1],
                                          !.status = "InProgress", !.updated_at = now]
        /\ balance' = balance

HappyComplete(k) ==
    (WellFormedComplete(k) /\ Positive(trades[k])
     /\ trades[k].taker # trades[k].maker) =>
        /\ last'.err = "Ok"
        /\ trades'[k] = [trades[k] EXCEPT !.status = "Completed", !.updated_at = now]
        /\ balance'[Escrow(k)] = balance[Escrow(k)] - trades[k].amount
        /\ balance'[Wallet(trades[k].taker)] =
               balance[Wallet(trades[k].taker)] + trades[k].amount
        /\ OthersUnchanged({Escrow(k), Wallet(trades[k].taker)})

\* The end of the happy path: the trade is Completed after a deposit of exactly
\* its amount (the escrow is empty again) with a taker other than the maker.
HappyEnd(k) ==
    /\ Positive(trades[k]) /\ trades[k].status = "Completed"
    /\ trades[k].taker \notin {None, trades[k].maker}
    /\ balance[Escrow(k)] = 0

\* C12: from no trade, create_trade (amount a > 0, price p > 0) by the maker,
\* deposit_escrow of a by the maker, accept_trade by a taker and complete_trade
\* each succeed, and the path ends Completed with the taker bound, the escrow
\* empty, the taker's balance a higher and the maker's balance a lower.
C12_HappyPath ==
    /\ [][\A k \in Makers : /\ HappyCreate(k) /\ HappyDeposit(k)
                            /\ HappyAccept(k) /\ HappyComplete(k)]_vars
    /\ [](\A k \in Makers : HappyEnd(k) =>
             /\ hist[k] = {"create_trade", "deposit_escrow", "accept_trade",
                           "complete_trade"}
             /\ balance[Wallet(trades[k].taker)] = InitBalance + trades[k].amount
             /\ balance[Wallet(trades[k].maker)] = InitBalance - trades[k].amount)

C12_Witness ==
    \E k \in Makers :
        /\ HappyEnd(k)
        /\ last.op = "complete_trade" /\ last.err = "Ok" /\ last.key = k
        /\ balance[Wallet(trades[k].taker)] = InitBalance + trades[k].amount

\* C13: a cancel_trade by the maker on a trade whose status is Created (never
\* funded) succeeds, sets the status to Cancelled and moves no tokens.
C13_CancelCreated ==
    [][\A k \in Makers :
          (/\ CallStep("cancel_trade", k)
           /\ IsTrade(trades[k]) /\ trades[k].status = "Created"
           /\ last'.signers = <<trades[k].maker>>) =>
              /\ last'.err = "Ok"
              /\ trades'[k].status = "Cancelled"
              /\ balance' = balance]_vars

\* C14: deposit_escrow and cancel_trade called by anyone other than the trade's
\* maker are rejected in every status and leave the Trade record and every token
\* balance, the caller's included, unchanged.
C14_MakerOnly ==
    [][\A k \in Makers :
          (/\ CallStep("deposit_escrow", k) \/ CallStep("cancel_trade", k)
           /\ IsTrade(trades[k])
           /\ last'.signers[1] # trades[k].maker) =>
              /\ last'.err \in {"UnauthorizedDepositor", "InsufficientFunds",
                                "ConstraintSeeds", "ConstraintRaw"}
              /\ trades' = trades
              /\ balance' = balance]_vars

C14_Witness ==
    \E k \in Makers :
        /\ IsTrade(trades[k]) /\ trades[k].status = "Created"
        /\ last.op = "deposit_escrow" /\ last.key = k
        /\ last.signers[1] # trades[k].maker
        /\ last.amount = trades[k].amount /\ last.amount > 0
        /\ last.err = "UnauthorizedDepositor"
        /\ balance[Wallet(last.signers[1])] = InitBalance

\* A complete_trade on an InProgress trade whose escrow holds the trade's
\* amount, with every program reached by CPI answering.
ReadyComplete(k) ==
    /\ CallStep("complete_trade", k)
    /\ IsTrade(trades[k]) /\ trades[k].status = "InProgress"
    /\ last'.cpi_ok
    /\ balance[Escrow(k)] >= trades[k].amount

Rejected == last'.err # "Ok" /\ trades' = trades /\ balance' = balance

\* C15: on an accepted trade with an in-tolerance price, a
\* complete_trade called by one caller who is the maker or the taker succeeds,
\* and one called by a caller who is neither is rejected with no state change.
C15_PartyMayComplete ==
    [][\A k \in Makers, caller \in Users :
          (ReadyComplete(k) /\ last'.signers = <<caller, caller>>) =>
              IF caller \in {trades[k].maker, trades[k].taker}
              THEN last'.err = "Ok"
              ELSE Rejected]_vars

\* C16: dispute_trade succeeds only for the trade's maker or bound taker in
\* status InProgress: any other caller is rejected with UnauthorizedDisputer, a
\* party in any other status with InvalidTradeStatus, and a successful dispute
\* changes only status (to Disputed) and updated_at.
C16_DisputeByPartyInProgress ==
    [][\A k \in Makers :
          (CallStep("dispute_trade", k) /\ IsTrade(trades[k])) =>
              IF last'.signers[1] \notin {trades[k].maker, trades[k].taker}
              THEN last'.err = "UnauthorizedDisputer" /\ Rejected
              ELSE IF trades[k].status # "InProgress"
              THEN last'.err = "InvalidTradeStatus" /\ Rejected
              ELSE /\ last'.err = "Ok"
                   /\ trades'[k] = [trades[k] EXCEPT !.status = "Disputed",
                                                     !.updated_at = now]
                   /\ balance' = balance]_vars

C16_Witness ==
    \E k \in Makers :
        /\ IsTrade(trades[k]) /\ trades[k].status = "Disputed"
        /\ last.op = "dispute_trade" /\ last.key = k /\ last.err = "Ok"
        /\ last.signers = <<trades[k].taker>>
        /\ trades[k].taker # trades[k].maker
        /\ balance[Escrow(k)] > 0
        /\ trades[k].updated_at > trades[k].created_at

\* C17: a Disputed trade can be resolved: in every Disputed state some call (the
\* arbitrator's resolve) is accepted that takes the trade out of Disputed and
\* releases the whole escrow to the winner, so that the escrow ends empty.
C17_DisputedResolvable ==
    \A k \in Makers :
        (IsTrade(trades[k]) /\ trades[k].status = "Disputed") =>
            ENABLED (/\ Next
                     /\ trades'[k].status # "Disputed"
                     /\ balance'[Escrow(k)] = 0)

\* C18: trade creation is guarded: create_trade with price 0 is rejected and no
\* Trade record comes into existence, so every Trade that exists has price > 0.
\* (create_trade takes no min, max or available amount to check the amount
\* against: offer::take_offer checks them before its CPI, create_trade itself,
\* which anyone may call, checks nothing.)
C18_CreateGuarded ==
    \A k \in Makers : IsTrade(trades[k]) => trades[k].price > 0

\* A handshake whose channel is unordered and whose versions are the protocol's.
Agreed(handshake) ==
    /\ handshake[1] = "Unordered"
    /\ handshake[2] = IBC_VERSION
    /\ handshake[3] \in {None, IBC_VERSION}

\* C19: ibc_channel_open and ibc_channel_connect are rejected with
\* OrderedChannel whenever the channel is not Unordered, and with InvalidVersion
\* whenever the channel version, or the counterparty version when one is
\* supplied, is not the protocol version; a rejected handshake creates no
\* per-channel counter and only an agreed handshake is accepted.
C19_HandshakeFailsClosed ==
    [][ibc_last'.op \in {"ibc_channel_open", "ibc_channel_connect"} =>
          LET handshake == ibc_last'.handshake
              c == ibc_last'.channel IN
          /\ (handshake[1] # "Unordered" => ibc_last'.err = "OrderedChannel")
          /\ (handshake[1] = "Unordered" /\ ~Agreed(handshake)
                => ibc_last'.err = "InvalidVersion")
          /\ (ibc_last'.err = "Ok" <=> Agreed(handshake))
          /\ (ibc_last'.err # "Ok" =>
                /\ c \notin DOMAIN connection_counts'
                /\ UNCHANGED <<channel_state, connection_counts, timeout_counts, ledger>>)
          /\ (ibc_last'.op = "ibc_channel_connect" /\ ibc_last'.err = "Ok"
                => connection_counts' = MapSave(connection_counts, c, 0))]_vars

C19_Witness ==
    /\ ibc_last.op = "ibc_channel_connect"
    /\ ibc_last.handshake = <<"Unordered", IBC_VERSION, "ics20-1">>
    /\ ibc_last.err = "InvalidVersion"
    /\ channel_state[ibc_last.channel] = "Init"
    /\ ibc_last.channel \notin DOMAIN connection_counts
    /\ \E c \in Channels : c \in DOMAIN connection_counts

RejectionReasons == {"ParseErr", "InvalidAmount", "NotFound", "Unauthorized", "InvalidStatus"}

\* C20: ibc_packet_receive never returns an error and sets exactly one
\* acknowledgment: Result if and only if the relayed Create or CancelRequest was
\* applied, otherwise Error carrying the rejection reason, an undecodable
\* payload included; a failed request is not dispatched again.
C20_ExactlyOneAck ==
    [][ibc_last'.op = "ibc_packet_receive" =>
          /\ ibc_last'.err = "Ok"
          /\ Len(ibc_last'.acks) = 1
          /\ LET ack == ibc_last'.acks[1] IN
             /\ ack[1] \in {"Result", "Error"}
             /\ (ack[1] = "Result" <=> ibc_last'.applied)
             /\ (ack[1] = "Result" => ack = make_ack_success)
             /\ (ack[1] = "Error" =>
                   /\ ack[2] \in RejectionReasons
                   /\ ibc_last'.messages = <<>>)
             /\ (ibc_last'.kind = "Undecodable" => ack = make_ack_fail("ParseErr"))]_vars

C20_Witness ==
    /\ ibc_last.op = "ibc_packet_receive"
    /\ ibc_last.kind = "Undecodable"
    /\ ibc_last.err = "Ok"
    /\ ibc_last.acks = <<make_ack_fail("ParseErr")>>
    /\ Len(ledger) > 0

\* A step in which ibc_packet_receive set a failure acknowledgment.
FailureAcked ==
    /\ ibc_last'.op = "ibc_packet_receive"
    /\ ibc_last'.acks # <<>>
    /\ ibc_last'.acks[1][1] = "Error"

\* C21: when ibc_packet_receive acknowledges a Create or CancelRequest as
\* failed, the trades of the ledger and the counters are what they were before
\* the packet and the response carries no message (the contract moves escrowed
\* funds only by messages of its response), although the entry point returns Ok
\* to the host.
C21_FailureLeavesNoState ==
    [][FailureAcked =>
          /\ ibc_last'.err = "Ok"
          /\ ledger' = ledger
          /\ connection_counts' = connection_counts
          /\ timeout_counts' = timeout_counts
          /\ ibc_last'.messages = <<>>]_vars

C21_Witness ==
    /\ ibc_last.op = "ibc_packet_receive"
    /\ ibc_last.kind = "CancelRequest"
    /\ ibc_last.err = "Ok"
    /\ ibc_last.acks = <<make_ack_fail("Unauthorized")>>
    /\ ibc_last.messages = <<>>
    /\ \E id \in 1..Len(ledger) : ledger[id].state = "Created"

\* C22: after ibc_channel_close for channel c both persisted counters of c are
\* reset: the received-message counter and the timeout counter are zero or
\* absent, also when timeouts were recorded on c before the close.
C22_CloseResetsCounters ==
    [][ibc_last'.op = "ibc_channel_close" =>
          LET c == ibc_last'.channel IN
          /\ MapLoadOrDefault(connection_counts', c) = 0
          /\ MapLoadOrDefault(timeout_counts', c) = 0]_vars

\* C23: while a channel is open its received-message counter starts at zero on
\* connect, never decreases, and counts the packets ibc_packet_receive has
\* handled on that channel: every handled packet raises it by one.
C23_CounterCountsReceipts ==
    [][LET c == ibc_last'.channel IN
       /\ (ibc_last'.op = "ibc_channel_connect" /\ ibc_last'.err = "Ok"
             => c \in DOMAIN connection_counts' /\ connection_counts'[c] = 0)
       /\ (ibc_last'.op = "ibc_packet_receive"
             => MapLoadOrDefault(connection_counts', c) =
                    MapLoadOrDefault(connection_counts, c) + 1)]_vars

\* C24: ibc_packet_timeout raises the timeout counter of the packet's source
\* channel by exactly one (from 0 when the channel has no entry) and changes
\* nothing else: no trade, no received-message counter, no other channel's
\* timeout counter, and it sends no message (nothing is cancelled or retried).
C24_TimeoutOnlyCounts ==
    [][ibc_last'.op = "ibc_packet_timeout" =>
          LET c == ibc_last'.channel IN
          /\ ibc_last'.err = "Ok"
          /\ c \in DOMAIN timeout_counts'
          /\ timeout_counts'[c] = MapLoadOrDefault(timeout_counts, c) + 1
          /\ \A d \in Channels \ {c} :
                /\ d \in DOMAIN timeout_counts' <=> d \in DOMAIN timeout_counts
                /\ d \in DOMAIN timeout_counts => timeout_counts'[d] = timeout_counts[d]
          /\ ledger' = ledger
          /\ connection_counts' = connection_counts
          /\ channel_state' = channel_state
          /\ ibc_last'.messages = <<>> /\ ibc_last'.acks = <<>>]_vars

C24_Witness ==
    /\ ibc_last.op = "ibc_packet_timeout"
    /\ ibc_last.channel \in DOMAIN timeout_counts
    /\ timeout_counts[ibc_last.channel] = 2
    /\ \E d \in Channels : d \in DOMAIN timeout_counts /\ timeout_counts[d] = 1
    /\ \E id \in 1..Len(ledger) : ledger[id].state = "Created"

\* C25: relayed requests are not deduplicated: a Create packet is applied
\* whether or not the same packet was applied before. Every well-formed Create
\* is acknowledged as a success and adds a Trade record of its own under a new
\* id, next to the records already there, which stay as they are; a
\* CancelRequest changes the one record it names.
C25_NoDeduplication ==
    [][ibc_last'.op = "ibc_packet_receive" =>
          LET msg == from_binary(ibc_last'.data).msg IN
          /\ (ibc_last'.kind = "Create" /\ msg.new_trade.amount # 0) =>
                /\ ibc_last'.applied
                /\ ibc_last'.acks = <<make_ack_success>>
                /\ Len(ledger') = Len(ledger) + 1
                /\ SubSeq(ledger', 1, Len(ledger)) = ledger
                /\ ledger'[Len(ledger')] =
                       [taker |-> msg.new_trade.taker, state |-> "Created"]
          /\ (ibc_last'.kind = "CancelRequest" /\ ibc_last'.applied) =>
                /\ Len(ledger') = Len(ledger)
                /\ \A id \in 1..Len(ledger) \ {msg.trade_id} : ledger'[id] = ledger[id]]_vars

\* The same Create was applied twice: two records with its trade fields under
\* two ids, the first cancelled since, the second untouched by that.
C25_Witness ==
    /\ ibc_last.op = "ibc_packet_receive" /\ ibc_last.kind = "Create"
    /\ ibc_last.applied
    /\ Len(ledger) = 2
    /\ ledger[1].taker = from_binary(ibc_last.data).msg.new_trade.taker
    /\ ledger[2].taker = ledger[1].taker
    /\ ledger[1].state = "Canceled" /\ ledger[2].state = "Created"

\* C26: ibc_packet_ack, for a success or a failure acknowledgment, modifies no
\* trade and no counter and sends no message (so it moves no funds); a timeout
\* in its place leaves the trades the same, so the trades are what they are
\* whether an acknowledgment is delivered or lost.
C26_AckChangesNothing ==
    [][/\ ibc_last'.op = "ibc_packet_ack" =>
             /\ ibc_last'.err = "Ok"
             /\ UNCHANGED <<ledger, connection_counts, timeout_counts, channel_state>>
             /\ ibc_last'.messages = <<>>
       /\ ibc_last'.op = "ibc_packet_timeout" =>
             /\ ledger' = ledger
             /\ ibc_last'.messages = <<>>]_vars

C26_Witness ==
    /\ ibc_last.op = "ibc_packet_ack" /\ ibc_last.kind = "Error"
    /\ ibc_last.err = "Ok"
    /\ \E id \in 1..Len(ledger) : ledger[id].state = "Created"
    /\ ibc_last.channel \in DOMAIN timeout_counts
    /\ ibc_last.channel \in DOMAIN connection_counts

\* The escrow of trade k pays the trade's amount to the taker in this step.
ReleasedToTaker(k) ==
    /\ balance'[Escrow(k)] = balance[Escrow(k)] - trades[k].amount
    /\ balance'[Wallet(trades[k].taker)] =
           balance[Wallet(trades[k].taker)] + trades[k].amount
    /\ OthersUnchanged({Escrow(k), Wallet(trades[k].taker)})

\* C27: a failure of the price or profile program during complete_trade cannot
\* corrupt the trade: the escrow is released to the taker and the status leaves
\* InProgress for Completed in one and the same step, or neither happens; a
\* complete_trade during which a collaborator fails changes nothing.
C27_ReleaseAndStatusTogether ==
    [][\A k \in Makers : (IsTrade(trades[k]) /\ trades[k].status = "InProgress") =>
          /\ (trades'[k].status = "Completed" <=>
                (CallStep("complete_trade", k) /\ last'.err = "Ok"))
          /\ (trades'[k].status = "Completed" => ReleasedToTaker(k))
          /\ (trades'[k].status # "Completed" => balance' = balance)
          /\ (CallStep("complete_trade", k) /\ ~last'.cpi_ok => Rejected)]_vars

C27_Witness ==
    \E k \in Makers :
        /\ IsTrade(trades[k]) /\ trades[k].status = "InProgress"
        /\ last.op = "complete_trade" /\ last.key = k
        /\ last.signers = <<trades[k].maker, trades[k].taker>>
        /\ last.err = "ProfileError"
        /\ trades[k].amount > 0
        /\ balance[Escrow(k)] = trades[k].amount
        /\ balance[Wallet(trades[k].taker)] = InitBalance

\* A step that executes an instruction of the offer program.
OfferStep(op) == now' = now /\ offer_last'.op = op

\* C28: take_offer succeeds only when the offer is Active and the requested
\* amount satisfies min_amount <= amount <= max_amount <= offer.amount, and
\* then the trade it creates is for that amount; on an Active offer an amount
\* outside [min_amount, max_amount] is rejected with InvalidAmount, a Paused or
\* Closed offer is rejected with InvalidStatus, and a rejected take_offer
\* creates no trade.  take_offer never writes the offer.
C28_TakeGuarded ==
    [][OfferStep("take_offer") /\ IsOffer(offer) =>
          LET amount == offer_last'.amount
              k == offer.creator
          IN  /\ (offer_last'.err = "Ok" =>
                    /\ offer.status = "Active"
                    /\ offer.min_amount <= amount
                    /\ amount <= offer.max_amount
                    /\ offer.max_amount <= offer.amount
                    /\ ~IsTrade(trades[k])
                    /\ IsTrade(trades'[k])
                    /\ trades'[k].maker = offer.creator
                    /\ trades'[k].amount = amount
                    /\ trades'[k].price = amount * offer.price_per_token
                    /\ trades'[k].status = "Created")
              /\ (offer.status = "Active"
                    /\ (amount < offer.min_amount \/ amount > offer.max_amount)
                    => offer_last'.err = "InvalidAmount")
              /\ (offer.status \in {"Paused", "Closed"} => offer_last'.err = "InvalidStatus")
              /\ (offer_last'.err # "Ok" => trades' = trades /\ balance' = balance)
              /\ offer' = offer]_vars

C28_Witness ==
    /\ IsOffer(offer)
    /\ offer_last.op = "take_offer"
    /\ offer_last.err = "Ok"
    /\ offer.status = "Active"
    /\ offer.min_amount < offer_last.amount
    /\ offer_last.amount < offer.max_amount
    /\ IsTrade(trades[offer.creator])
    /\ trades[offer.creator].amount = offer_last.amount

\* The relation create_offer and update_offer require of an offer's bounds
BoundsHold(min_amount, max_amount, amount) ==
    min_amount <= max_amount /\ max_amount <= amount

\* In the current state, every create_offer with violating bounds and every
\* update_offer whose resulting bounds violate the relation answers InvalidAmounts.
ViolatingBoundsRejected ==
    /\ \A amount \in Amounts, price_per_token \in OfferPrices,
          min_amount \in Amounts, max_amount \in Amounts :
            ~BoundsHold(min_amount, max_amount, amount) =>
                create_offer(offer, "alice", amount, price_per_token, min_amount,
                             max_amount, now).err = "InvalidAmounts"
    /\ IsOffer(offer) =>
         \A price_per_token \in Option(OfferPrices),
            min_amount \in Option(Amounts), max_amount \in Option(Amounts) :
              LET u == UpdatedFields(offer, price_per_token, min_amount, max_amount) IN
              ~BoundsHold(u.min_amount, u.max_amount, u.amount) =>
                  update_offer(offer, price_per_token, min_amount, max_amount,
                               now).err = "InvalidAmounts"

\* C29: every stored offer satisfies min_amount <= max_amount <= amount;
\* create_offer with violating bounds and update_offer with violating resulting
\* bounds are rejected with InvalidAmounts, and a rejected create_offer or
\* update_offer leaves the offer (price_per_token, min_amount, max_amount and
\* updated_at included) as it was.
C29_BoundsKept ==
    /\ [](/\ IsOffer(offer) =>
                BoundsHold(offer.min_amount, offer.max_amount, offer.amount)
          /\ ViolatingBoundsRejected)
    /\ [][OfferStep("create_offer") \/ OfferStep("update_offer") =>
            /\ (offer_last'.err # "Ok" => offer' = offer)
            /\ (offer_last'.err = "Ok" =>
                  /\ IsOffer(offer')
                  /\ offer'.updated_at = now
                  /\ IsOffer(offer) => offer'.amount = offer.amount)]_vars

C29_Witness ==
    /\ IsOffer(offer)
    /\ offer_last.op = "update_offer"
    /\ offer_last.err = "InvalidAmounts"
    /\ offer.updated_at < now
    /\ offer.min_amount < offer.max_amount
    /\ offer.max_amount < offer.amount

StatusOps == {"pause_offer", "resume_offer", "close_offer"}

\* The statuses from which a status instruction is allowed, and where it leads
AllowedFrom(op) ==
    CASE op = "pause_offer" -> {"Active"}
      [] op = "resume_offer" -> {"Paused"}
      [] op = "close_offer" -> {"Active", "Paused"}

LeadsTo(op) ==
    CASE op = "pause_offer" -> "Paused"
      [] op = "resume_offer" -> "Active"
      [] op = "close_offer" -> "Closed"

\* C30: the offer lifecycle is Active <-> Paused -> Closed with Closed terminal:
\* pause_offer succeeds only from Active, resume_offer only from Paused,
\* close_offer only from Active or Paused; called by the creator in another
\* status each fails with InvalidStatus, and a failed call leaves the offer
\* unchanged; no instruction changes the status of a Closed offer and
\* take_offer never succeeds on it.
C30_OfferLifecycle ==
    [][IsOffer(offer) =>
          /\ IsOffer(offer')
          /\ \A op \in StatusOps : OfferStep(op) =>
                /\ (offer_last'.err = "Ok" =>
                      /\ offer.status \in AllowedFrom(op)
                      /\ offer_last'.signer = offer.creator
                      /\ offer' = [offer EXCEPT !.status = LeadsTo(op),
                                                !.updated_at = now])
                /\ (offer_last'.signer = offer.creator
                      /\ offer.status \notin AllowedFrom(op)
                      => offer_last'.err = "InvalidStatus")
                /\ (offer_last'.signer = offer.creator
                      /\ offer.status \in AllowedFrom(op)
                      => offer_last'.err = "Ok")
                /\ (offer_last'.err # "Ok" => offer' = offer)
          /\ (offer'.status # offer.status =>
                \E op \in StatusOps : OfferStep(op) /\ offer_last'.err = "Ok")
          /\ (offer.status = "Closed" =>
                /\ offer'.status = "Closed"
                /\ (OfferStep("take_offer") => offer_last'.err = "InvalidStatus")
                /\ trades' = trades)]_vars

C30_Witness ==
    /\ IsOffer(offer)
    /\ offer.status = "Closed"
    /\ offer_last.op \in StatusOps
    /\ offer_last.signer = offer.creator
    /\ offer_last.err = "InvalidStatus"
    /\ offer.updated_at < now

\* C31: take_offer quotes the trade at amount * price_per_token in unsigned
\* arithmetic of U64_BITS bits: a take_offer that passes the status and range
\* guards fails with CalculationError, creating no trade, exactly when the
\* product reaches 2^U64_BITS, and a trade it creates carries exactly the
\* product, which is below 2^U64_BITS (the price never wraps around).
C31_PriceNeverWraps ==
    [][OfferStep("take_offer") /\ IsOffer(offer) =>
          LET amount == offer_last'.amount
              k == offer.creator
              product == amount * offer.price_per_token
              guards_pass == /\ offer.status = "Active"
                             /\ offer.min_amount <= amount
                             /\ amount <= offer.max_amount
          IN  /\ (offer_last'.err = "CalculationError" <=>
                    (guards_pass /\ product >= 2^U64_BITS))
              /\ (offer_last'.err = "CalculationError" =>
                    trades' = trades /\ balance' = balance)
              /\ (offer_last'.err = "Ok" =>
                    /\ product < 2^U64_BITS
                    /\ trades'[k].price = product
                    /\ trades'[k].amount = amount)
              /\ (trades'[k] # trades[k] => offer_last'.err = "Ok")]_vars

C31_Witness ==
    /\ IsOffer(offer)
    /\ offer_last.op = "take_offer"
    /\ offer_last.err = "CalculationError"
    /\ offer.status = "Active"
    /\ offer.min_amount <= offer_last.amount
    /\ offer_last.amount <= offer.max_amount
    /\ offer_last.amount * offer.price_per_token >= 2^U64_BITS
    /\ ~IsTrade(trades[offer.creator])

\* C32: a trade is keyed by its maker (and the one token mint): while the
\* Trade record of a maker exists, in any status, a further create_trade for
\* it is rejected and leaves the record and every token balance unchanged; a
\* record that exists is never re-initialised: no step removes it or changes
\* its maker, amount, price or creation time.
C32_OneTradePerKey ==
    [][\A k \in Makers : IsTrade(trades[k]) =>
          /\ (CallStep("create_trade", k) =>
                /\ last'.err = "AccountAlreadyInUse"
                /\ trades' = trades
                /\ balance' = balance)
          /\ IsTrade(trades'[k])
          /\ trades'[k].maker = trades[k].maker
          /\ trades'[k].amount = trades[k].amount
          /\ trades'[k].price = trades[k].price
          /\ trades'[k].created_at = trades[k].created_at]_vars

C32_Witness ==
    \E k \in Makers :
        /\ IsTrade(trades[k])
        /\ trades[k].status = "Completed"
        /\ trades[k].created_at < now
        /\ last.op = "create_trade" /\ last.key = k
        /\ last.err = "AccountAlreadyInUse"
        /\ balance[Wallet(trades[k].taker)] > InitBalance

RECURSIVE TotalOf(_, _)
\* The tokens held by the accounts of S under the balances bal
TotalOf(bal, S) ==
    IF S = {} THEN 0
    ELSE LET a == CHOOSE x \in S : TRUE IN bal[a] + TotalOf(bal, S \ {a})

\* The parties' token accounts and the escrow together always hold the tokens
\* they held at the start.
TokensConserved ==
    TotalOf(balance, TokenAccounts) = Cardinality(Users) * InitBalance

\* C33: tokens are conserved and never stranded: the parties' balances and the
\* escrow balance always add up to the same total, and a trade in a terminal
\* status (Completed or Cancelled) has an empty escrow.
C33_ConservedNeverStranded ==
    /\ TokensConserved
    /\ \A k \in Makers :
          IsTrade(trades[k]) /\ trades[k].status \in {"Completed", "Cancelled"}
              => balance[Escrow(k)] = 0

\* The count OFFERS_COUNT holds and the ids under which offers are stored
Count(st) == st.offers_count[1]
StoredIds(st) == DOMAIN st.offers

\* C34: CosmWasm offer ids are sequential and unique: instantiate sets the
\* count to 0; a successful create_offer increments it by exactly one and
\* stores the new offer under the new count, leaving the other offers alone; a
\* rejected create_offer leaves the storage unchanged; update_offer and
\* register_hub never change the count or the set of ids; so the stored offers
\* always have exactly the ids 1..count, each carrying its own id.
C34_SequentialIds ==
    /\ [](IF Instantiated
          THEN /\ StoredIds(cw_storage) = 1..Count(cw_storage)
               /\ \A id \in StoredIds(cw_storage) : cw_storage.offers[id].id = id
          ELSE StoredIds(cw_storage) = {})
    /\ [][/\ (cw_last'.op = "instantiate" =>
                /\ Count(cw_storage') = 0
                /\ StoredIds(cw_storage') = {})
          /\ (cw_last'.op = "create_offer" /\ cw_last'.err = "Ok" =>
                LET id == Count(cw_storage) + 1 IN
                /\ Count(cw_storage') = id
                /\ StoredIds(cw_storage') = StoredIds(cw_storage) \cup {id}
                /\ id \notin StoredIds(cw_storage)
                /\ cw_storage'.offers[id].id = id
                /\ cw_storage'.offers[id].owner = cw_last'.sender
                /\ \A other \in StoredIds(cw_storage) :
                      cw_storage'.offers[other] = cw_storage.offers[other])
          /\ (cw_last'.op = "create_offer" /\ cw_last'.err # "Ok" =>
                cw_storage' = cw_storage)
          /\ (cw_last'.op \in {"update_offer", "register_hub"} =>
                /\ cw_storage'.offers_count = cw_storage.offers_count
                /\ StoredIds(cw_storage') = StoredIds(cw_storage))]_vars

C34_Witness ==
    /\ Instantiated
    /\ Count(cw_storage) = 2
    /\ StoredIds(cw_storage) = {1, 2}
    /\ cw_storage.offers[1].owner # cw_storage.offers[2].owner
    /\ cw_storage.offers[1].state = "Paused"
    /\ cw_last.op = "create_offer"
    /\ cw_last.err \in {"InvalidMinMax", "InvalidParameter"}

====
